---- MODULE Spec2Model ----
(***************************************************************************)
(* SvgOverlaySource of plugins/python/glsvgoverlaysrc.py: the queue of     *)
(* (svg, pts) items, the eos and flushing flags, the condition variable    *)
(* self.cond, and the streaming thread's walk through                      *)
(* do_gst_push_src_fill.                                                    *)
(*                                                                         *)
(* Every "with self.cond:" block is one atomic step: it starts with the    *)
(* lock free and runs with the lock held; lock is the holder of the lock   *)
(* between steps.  threading.Condition wakes a waiter only on              *)
(* notify/notify_all, so a wait ends only after a notify_all issued while  *)
(* the thread was waiting (notified).                                      *)
(*                                                                         *)
(* Spec, FairSpec, ShortSpec and SeqSpec run the element with buffers that *)
(* pass the asserts of render_svg, as a host that allocates what was       *)
(* negotiated hands them; HostSpec adds do_event, do_set_caps and buffers  *)
(* of any length.                                                          *)
(*                                                                         *)
(* trace is the history of the calls made on the element and of the        *)
(* returns of fill; the properties are stated over it.                     *)
(***************************************************************************)
EXTENDS Integers, Sequences, FiniteSets

VARIABLES
    queue,          \* self.queue: collections.deque of (svg, pts)
    eos,            \* self.eos
    flushing,       \* self.flushing
    is_live,        \* GstBase.BaseSrc live flag, read as self.is_live
    input_frames,   \* self.input_frames
    output_frames,  \* self.output_frames
    pc,             \* where the streaming thread is in do_gst_push_src_fill
    notified,       \* a notify_all reached the thread while it was in cond.wait()
    item,           \* the locals svg, pts of do_gst_push_src_fill
    buf,            \* what the call has written to buf: rendered svg, buf.pts
    lock,           \* the thread holding the lock of self.cond between steps
    width,          \* self.width
    height,         \* self.height
    min_stride,     \* self.min_stride
    trace           \* history of calls and returns

\* The negotiated geometry.
geometry == <<width, height, min_stride>>

vars == <<queue, eos, flushing, is_live, input_frames, output_frames,
          pc, notified, item, buf, lock, width, height, min_stride, trace>>

\* ---------------------------------------------------------------- bounds
\* Calls explored in one run: queue_svg, set_eos, set_flushing/do_unlock/
\* do_unlock_stop, reset/do_start/do_stop and do_gst_push_src_fill together.
MaxCalls == 5

\* The same, in the runs checked for progress under fairness and in the
\* runs of ShortSpec.
MaxFairCalls == 4

\* The same, in the runs of sequential use.
MaxSeqCalls == 5

\* The same, in the runs that add the host's events, caps and buffers.
MaxHostCalls == 3

\* The (svg, pts) pairs queue_svg is called with.
Items == {<<"a", 1>>, <<"b", 2>>}

\* The locals svg, pts before popleft assigns them; an untouched buffer.
NoItem == <<"none", 0>>

DEFAULT_IS_LIVE == TRUE
DEFAULT_HEIGHT == 640
DEFAULT_WIDTH == 480
\* Gst.SeekFlags.FLUSH, the lowest bit of the seek flags
FLUSH == 1

\* The caps of do_set_caps: <<width, height>>.
Caps == {<<1, 2>>}
\* The buffers a caller passes to fill: with a video meta of stride[0], or
\* without one, and the byte length its mapping has.
MetaStrides == {2, 4}
MappedLens == {7, 8}
Buffers ==
    [meta : {TRUE}, stride : MetaStrides, len : MappedLens]
        \cup [meta : {FALSE}, stride : {0}, len : MappedLens]
\* The events of do_event, and the flags of a seek: none, FLUSH, ACCURATE.
EventTypes == {"SEEK", "QOS"}
SeekFlags == 0..2

\* ---------------------------------------------------------------- history
EvQueue(it, live) == [op |-> "queue_svg", item |-> it, live |-> live]
EvEos == [op |-> "set_eos"]
EvFlush(b) == [op |-> "set_flushing", flushing |-> b]
EvReset == [op |-> "reset"]
\* a call of fill, with the queue and the flags it finds
EvCall == [op |-> "fill", queue |-> queue, eos |-> eos, flushing |-> flushing]
\* a return of fill: its status, the item it popped, the buffer it leaves and
\* the queue it leaves
\* fill left by an AssertionError of render_svg: the buffer as it was left, the
\* length that was mapped and the length stride * height asked for
EvRaise(it, b, len, need) ==
    [op |-> "return", status |-> "AssertionError", item |-> it, buf |-> b,
     queue |-> queue, eos |-> eos, flushing |-> flushing,
     mapped |-> len, need |-> need]
\* do_event(event): the flush events it sent
EvEvent(type, flags, sent) ==
    [op |-> "do_event", type |-> type, flags |-> flags, sent |-> sent]
EvReturn(status, it, b, q) ==
    [op |-> "return", status |-> status, item |-> it, buf |-> b, queue |-> q,
     eos |-> eos, flushing |-> flushing]

\* The calls made so far (the returns of fill are not calls).
CallsDone == Cardinality({k \in DOMAIN trace : trace[k].op # "return"})

\* cond.notify_all(): the streaming thread, if it is in cond.wait(), is woken.
notify_all == notified' = (pc = "wait")

\* ---------------------------------------------------------------- Init
Init ==
    /\ queue = <<>>
    /\ eos = FALSE
    /\ flushing = FALSE
    /\ is_live = DEFAULT_IS_LIVE
    /\ input_frames = 0
    /\ output_frames = 0
    /\ pc = "idle"
    /\ notified = FALSE
    /\ item = NoItem
    /\ buf = NoItem
    /\ lock = "free"
    /\ width = DEFAULT_WIDTH
    /\ height = DEFAULT_HEIGHT
    /\ min_stride = 0
    /\ trace = <<>>

\* "with self.cond:": the block is entered when the lock is free and the lock is
\* free again when the block is left.
with_cond ==
    /\ lock = "free"
    /\ lock' = "free"

\* ---------------------------------------------------------------- producers
\* reset() that clears the queue and leaves eos as it is.
reset_locked_keep_eos ==
    /\ with_cond
    /\ queue' = <<>>
    /\ UNCHANGED <<eos, flushing, is_live, input_frames, output_frames,
                   pc, notified, item, buf, geometry>>

\* reset() that also ends a flush.
reset_locked_unflush ==
    /\ with_cond
    /\ eos' = FALSE
    /\ queue' = <<>>
    /\ flushing' = FALSE
    /\ UNCHANGED <<is_live, input_frames, output_frames,
                   pc, notified, item, buf, geometry>>

\* reset(): eos cleared, queue cleared; no notify.
reset_locked ==
    /\ with_cond
    /\ eos' = FALSE
    /\ queue' = <<>>
    /\ UNCHANGED <<flushing, is_live, input_frames, output_frames,
                   pc, notified, item, buf, geometry>>

reset ==
    /\ CallsDone < MaxCalls
    /\ reset_locked
    /\ trace' = Append(trace, EvReset)

do_start ==
    /\ CallsDone < MaxCalls
    /\ reset_locked
    /\ trace' = Append(trace, EvReset)

do_stop ==
    /\ CallsDone < MaxCalls
    /\ reset_locked
    /\ trace' = Append(trace, EvReset)

\* set_eos(): sets the flag; the code issues no notify.
set_eos ==
    /\ CallsDone < MaxCalls
    /\ with_cond
    /\ eos' = TRUE
    /\ trace' = Append(trace, EvEos)
    /\ UNCHANGED <<queue, flushing, is_live, input_frames, output_frames,
                   pc, notified, item, buf, geometry>>

\* enqueue without the clear of live mode.
enqueue_append(q, it, live) == Append(q, it)

\* The queue queue_svg leaves: cleared first when live, then the item appended.
enqueue(q, it, live) == IF live THEN <<it>> ELSE Append(q, it)

\* queue_svg without its notify_all.
queue_svg_silent(svg, pts) ==
    /\ CallsDone < MaxCalls
    /\ with_cond
    /\ input_frames' = input_frames + 1
    /\ queue' = enqueue(queue, <<svg, pts>>, is_live)
    /\ trace' = Append(trace, EvQueue(<<svg, pts>>, is_live))
    /\ UNCHANGED <<eos, flushing, is_live, output_frames, pc, notified,
                   item, buf, geometry>>

queue_svg(svg, pts) ==
    /\ CallsDone < MaxCalls
    /\ with_cond
    /\ input_frames' = input_frames + 1
    /\ queue' = enqueue(queue, <<svg, pts>>, is_live)
    /\ notify_all
    /\ trace' = Append(trace, EvQueue(<<svg, pts>>, is_live))
    /\ UNCHANGED <<eos, flushing, is_live, output_frames, pc, item, buf,
                   geometry>>

\* set_flushing without its notify_all.
set_flushing_silent(b) ==
    /\ CallsDone < MaxCalls
    /\ with_cond
    /\ flushing' = b
    /\ trace' = Append(trace, EvFlush(b))
    /\ UNCHANGED <<queue, eos, is_live, input_frames, output_frames,
                   pc, notified, item, buf, geometry>>

\* set_flushing(true) that also discards the backlog.
set_flushing_discard(b) ==
    /\ CallsDone < MaxCalls
    /\ with_cond
    /\ flushing' = b
    /\ queue' = IF b THEN <<>> ELSE queue
    /\ notify_all
    /\ trace' = Append(trace, EvFlush(b))
    /\ UNCHANGED <<eos, is_live, input_frames, output_frames, pc, item, buf,
                   geometry>>

set_flushing(b) ==
    /\ CallsDone < MaxCalls
    /\ with_cond
    /\ flushing' = b
    /\ notify_all
    /\ trace' = Append(trace, EvFlush(b))
    /\ UNCHANGED <<queue, eos, is_live, input_frames, output_frames,
                   pc, item, buf, geometry>>

do_unlock == set_flushing(TRUE)

do_unlock_stop == set_flushing(FALSE)

\* GlSvgOverlaySource.do_set_property('is-live', value): self.src.set_live(value)
set_live(b) ==
    /\ is_live' = b
    /\ UNCHANGED <<queue, eos, flushing, input_frames, output_frames,
                   pc, notified, item, buf, lock, geometry, trace>>

\* ---------------------------------------------------------------- fill
\* get_flow_return_locked that reports EOS without clearing the flag.
get_flow_return_locked_sticky(default) ==
    IF queue = <<>> /\ eos
    THEN [result |-> "EOS", eos |-> eos]
    ELSE IF flushing
         THEN [result |-> "FLUSHING", eos |-> eos]
         ELSE [result |-> default, eos |-> eos]

\* get_flow_return_locked that reports EOS as soon as eos is set, whatever is
\* still queued.
get_flow_return_locked_eager(default) ==
    IF eos
    THEN [result |-> "EOS", eos |-> FALSE]
    ELSE IF flushing
         THEN [result |-> "FLUSHING", eos |-> eos]
         ELSE [result |-> default, eos |-> eos]

\* get_flow_return_locked with the two tests in the other order: flushing
\* first, then end of stream.
get_flow_return_locked_flush_first(default) ==
    IF flushing
    THEN [result |-> "FLUSHING", eos |-> eos]
    ELSE IF queue = <<>> /\ eos
         THEN [result |-> "EOS", eos |-> FALSE]
         ELSE [result |-> default, eos |-> eos]

\* get_flow_return_locked(default): the status, and the eos flag it leaves.
\* "NONE" is Python's None (no terminal condition).
get_flow_return_locked(default) ==
    IF queue = <<>> /\ eos
    THEN [result |-> "EOS", eos |-> FALSE]
    ELSE IF flushing
         THEN [result |-> "FLUSHING", eos |-> eos]
         ELSE [result |-> default, eos |-> eos]

\* deque.pop() in place of popleft(): the newest item is taken.
popleft_newest(q) == [head |-> q[Len(q)], rest |-> SubSeq(q, 1, Len(q) - 1)]

\* queue[0] in place of popleft(): the head is read and stays queued.
popleft_peek(q) == [head |-> Head(q), rest |-> q]

\* queue.popleft(): the item taken and the queue left.
popleft(q) == [head |-> Head(q), rest |-> Tail(q)]

\* "return result" that takes the flushing request as served once FLUSHING
\* has been reported.
ReturnEarly_unflush(r, tr) ==
    /\ eos' = r.eos
    /\ flushing' = IF r.result = "FLUSHING" THEN FALSE ELSE flushing
    /\ pc' = "idle"
    /\ notified' = FALSE
    /\ trace' = Append(tr, EvReturn(r.result, item, buf, queue))
    /\ lock' = "free"
    /\ UNCHANGED <<queue, is_live, input_frames, output_frames,
                   item, buf, geometry>>

\* "return result" out of the first with-block: nothing popped, buffer untouched.
ReturnEarly(r, tr) ==
    /\ eos' = r.eos
    /\ pc' = "idle"
    /\ notified' = FALSE
    /\ trace' = Append(tr, EvReturn(r.result, item, buf, queue))
    /\ lock' = "free"
    /\ UNCHANGED <<queue, flushing, is_live, input_frames, output_frames,
                   item, buf, geometry>>

\* "if not self.queue: self.cond.wait()" in place of the while loop: a woken
\* thread goes on to popleft without looking at the queue again, and takes
\* nothing from an empty one.
WaitOrPop_once(tr) ==
    /\ trace' = tr
    /\ lock' = "free"
    /\ IF queue = <<>> /\ pc = "idle"
       THEN /\ pc' = "wait"
            /\ notified' = FALSE
            /\ UNCHANGED <<queue, item>>
       ELSE /\ pc' = "render"
            /\ notified' = FALSE
            /\ item' = IF queue = <<>> THEN NoItem ELSE popleft(queue).head
            /\ queue' = IF queue = <<>> THEN <<>> ELSE popleft(queue).rest
    /\ UNCHANGED <<eos, flushing, is_live, input_frames, output_frames, buf,
                   geometry>>

\* The render inside the first with-block: the streaming thread keeps the lock
\* once it has popped.
WaitOrPop_locked(tr) ==
    /\ trace' = tr
    /\ IF queue = <<>>
       THEN /\ pc' = "wait"
            /\ notified' = FALSE
            /\ lock' = "free"
            /\ UNCHANGED <<queue, item>>
       ELSE /\ pc' = "render"
            /\ notified' = FALSE
            /\ lock' = "streaming"
            /\ item' = popleft(queue).head
            /\ queue' = popleft(queue).rest
    /\ UNCHANGED <<eos, flushing, is_live, input_frames, output_frames, buf,
                   geometry>>

\* "while not self.queue: self.cond.wait()" on an empty queue, else
\* "assert self.queue; svg, pts = self.queue.popleft()" and the lock is released.
\* cond.wait() releases the lock for as long as the thread is suspended.
WaitOrPop(tr) ==
    /\ trace' = tr
    /\ lock' = "free"
    /\ IF queue = <<>>
       THEN /\ pc' = "wait"
            /\ notified' = FALSE
            /\ UNCHANGED <<queue, item>>
       ELSE /\ pc' = "render"
            /\ notified' = FALSE
            /\ item' = popleft(queue).head
            /\ queue' = popleft(queue).rest
    /\ UNCHANGED <<eos, flushing, is_live, input_frames, output_frames, buf,
                   geometry>>

\* The streaming thread calls do_gst_push_src_fill(buf) with a fresh buffer and
\* runs the first with-block up to its return, its wait or its popleft.
FillEnter ==
    /\ pc = "idle"
    /\ CallsDone < MaxCalls
    /\ lock = "free"
    /\ LET r == get_flow_return_locked("NONE")
           tr == Append(trace, EvCall)
       IN IF r.result # "NONE"
          THEN /\ ReturnEarly(r, tr)
          ELSE /\ WaitOrPop(tr)

\* cond.wait() returns after a notify_all, with the lock held again.
FillWake ==
    /\ pc = "wait"
    /\ notified
    /\ lock = "free"
    /\ LET r == get_flow_return_locked("NONE")
       IN IF r.result # "NONE"
          THEN ReturnEarly(r, trace)
          ELSE WaitOrPop(trace)

\* The stride render_svg works with: meta.stride[0] when the buffer carries a
\* video meta, self.min_stride otherwise.
stride_of(b) == IF b.meta THEN b.stride ELSE min_stride

\* The asserts of render_svg that read the stride and the mapping all hold.
\* (n_planes, width and height of a meta are taken to match.)
render_asserts(b) ==
    /\ b.meta => b.stride >= min_stride
    /\ b.len >= stride_of(b) * height

\* The buffers a host that keeps to the negotiated size hands to fill.
ConformingBuffers == {b \in Buffers : render_asserts(b)}

\* render_svg with the assert on the mapped length after the zero fill: the
\* mapping has been written to when the AssertionError is raised.
render_svg_late(bufs) ==
    /\ pc = "render"
    /\ \E b \in bufs :
          IF render_asserts(b)
          THEN /\ buf' = item
               /\ pc' = "post"
               /\ UNCHANGED <<item, trace>>
          ELSE /\ pc' = "idle"
               /\ item' = NoItem
               /\ buf' = NoItem
               /\ trace' = Append(trace,
                      EvRaise(item, <<"zeros", 0>>, b.len, stride_of(b) * height))
    /\ UNCHANGED <<queue, eos, flushing, is_live, input_frames, output_frames,
                   notified, lock, geometry>>

\* render_svg(svg, buf); buf.pts = pts, outside the lock.  bufs are the buffers
\* the caller may have passed.  A failed assert leaves do_gst_push_src_fill
\* as an AssertionError before anything was written: the popped item is gone,
\* output_frames is not counted.
render_svg(bufs) ==
    /\ pc = "render"
    /\ \E b \in bufs :
          IF render_asserts(b)
          THEN /\ buf' = item
               /\ pc' = "post"
               /\ UNCHANGED <<item, trace>>
          ELSE /\ pc' = "idle"
               /\ item' = NoItem
               /\ buf' = NoItem
               /\ trace' = Append(trace,
                      EvRaise(item, buf, b.len, stride_of(b) * height))
    /\ UNCHANGED <<queue, eos, flushing, is_live, input_frames, output_frames,
                   notified, lock, geometry>>

\* The second with-block: output_frames += 1 and
\* return self.get_flow_return_locked(Gst.FlowReturn.OK).  print_fps is 0
\* (PRINT_FPS unset), so the report that zeroes the two frame counters is not
\* taken; fps_start holds a clock reading that nothing else reads.
FillFinish ==
    /\ pc = "post"
    /\ with_cond
    /\ LET r == get_flow_return_locked("OK")
       IN /\ output_frames' = output_frames + 1
          /\ eos' = r.eos
          /\ pc' = "idle"
          /\ item' = NoItem
          /\ buf' = NoItem
          /\ trace' = Append(trace, EvReturn(r.result, item, buf, queue))
    /\ UNCHANGED <<queue, flushing, is_live, input_frames, notified, geometry>>

Consumer == FillWake \/ render_svg(ConformingBuffers) \/ FillFinish

Next ==
    \/ \E it \in Items : queue_svg(it[1], it[2])
    \/ set_eos
    \/ \E b \in BOOLEAN : set_flushing(b)
    \/ do_unlock
    \/ do_unlock_stop
    \/ reset
    \/ do_start
    \/ do_stop
    \/ \E b \in BOOLEAN : set_live(b)
    \/ FillEnter
    \/ Consumer

Spec == Init /\ [][Next]_vars

\* The streaming thread is a running thread: once it is inside fill it keeps
\* taking its steps (a woken wait reacquires the lock, a render finishes).
\* The step keeps the calls made within MaxFairCalls.
FairBound == CallsDone' <= MaxFairCalls

FairNext ==
    \/ (\E it \in Items : queue_svg(it[1], it[2])) /\ FairBound
    \/ set_eos /\ FairBound
    \/ (\E b \in BOOLEAN : set_flushing(b)) /\ FairBound
    \/ do_unlock /\ FairBound
    \/ do_unlock_stop /\ FairBound
    \/ reset /\ FairBound
    \/ do_start /\ FairBound
    \/ do_stop /\ FairBound
    \/ \E b \in BOOLEAN : set_live(b)
    \/ FillEnter /\ FairBound
    \/ Consumer

FairSpec == Init /\ [][FairNext]_vars /\ WF_vars(Consumer)

\* The same steps with nothing asked of the scheduling.
ShortSpec == Init /\ [][FairNext]_vars

\* The element driven the way a sequential test drives it: no call lands
\* while a fill is between its popleft and its return.  The step keeps the
\* calls made within MaxSeqCalls.
SeqBound == pc \notin {"render", "post"} /\ CallsDone' <= MaxSeqCalls

SeqNext ==
    \/ (\E it \in Items : queue_svg(it[1], it[2])) /\ SeqBound
    \/ set_eos /\ SeqBound
    \/ (\E b \in BOOLEAN : set_flushing(b)) /\ SeqBound
    \/ do_unlock /\ SeqBound
    \/ do_unlock_stop /\ SeqBound
    \/ reset /\ SeqBound
    \/ do_start /\ SeqBound
    \/ do_stop /\ SeqBound
    \/ \E b \in BOOLEAN : set_live(b)
    \/ FillEnter /\ SeqBound
    \/ Consumer

SeqSpec == Init /\ [][SeqNext]_vars

\* ---------------------------------------------------------------- the host
\* a | b on the bits of two naturals
RECURSIVE BitOr(_, _)
BitOr(a, b) ==
    IF a = 0 THEN b
    ELSE IF b = 0 THEN a
    ELSE (IF a % 2 = 1 \/ b % 2 = 1 THEN 1 ELSE 0) + 2 * BitOr(a \div 2, b \div 2)

\* a & b on the bits of two naturals
RECURSIVE BitAnd(_, _)
BitAnd(a, b) ==
    IF a = 0 \/ b = 0 THEN 0
    ELSE (IF a % 2 = 1 /\ b % 2 = 1 THEN 1 ELSE 0) + 2 * BitAnd(a \div 2, b \div 2)

\* The flush events do_event sends for a seek with these flags:
\* "if flags | Gst.SeekFlags.FLUSH:".
flush_events(flags) ==
    IF BitOr(flags, FLUSH) # 0 THEN <<"flush-start", "flush-stop">> ELSE <<>>

\* do_event(event).  A SEEK sends the flush events and calls reset(); any other
\* event is handed to GstBase.BaseSrc.do_event, which touches no field here.
do_event(type, flags) ==
    /\ CallsDone < MaxCalls
    /\ IF type = "SEEK"
       THEN /\ reset_locked
            /\ trace' = Append(trace, EvEvent(type, flags, flush_events(flags)))
       ELSE /\ trace' = Append(trace, EvEvent(type, 0, <<>>))
            /\ UNCHANGED <<queue, eos, flushing, is_live, input_frames,
                           output_frames, pc, notified, item, buf, lock,
                           geometry>>

\* cairo_format_stride_for_width(FORMAT_ARGB32, width): four bytes a pixel.
cairo_format_stride_for_width(w) == 4 * w

\* do_set_caps(caps): the geometry of the negotiated caps.
do_set_caps(w, h) ==
    /\ width' = w
    /\ height' = h
    /\ min_stride' = cairo_format_stride_for_width(w)
    /\ UNCHANGED <<queue, eos, flushing, is_live, input_frames, output_frames,
                   pc, notified, item, buf, lock, trace>>

\* The element in the hands of its host: events, caps, and buffers of any
\* length, with the calls made kept within MaxHostCalls.
HostBound == CallsDone' <= MaxHostCalls

HostNext ==
    \/ (\E it \in Items : queue_svg(it[1], it[2])) /\ HostBound
    \/ set_eos /\ HostBound
    \/ (\E b \in BOOLEAN : set_flushing(b)) /\ HostBound
    \/ do_unlock /\ HostBound
    \/ do_unlock_stop /\ HostBound
    \/ reset /\ HostBound
    \/ do_start /\ HostBound
    \/ do_stop /\ HostBound
    \/ (\E ty \in EventTypes, fl \in SeekFlags : do_event(ty, fl)) /\ HostBound
    \/ \E c \in Caps : do_set_caps(c[1], c[2])
    \/ \E b \in BOOLEAN : set_live(b)
    \/ FillEnter /\ HostBound
    \/ FillWake
    \/ render_svg(Buffers)
    \/ FillFinish

HostSpec == Init /\ [][HostNext]_vars

\* ---------------------------------------------------------------- reading the history
N == Len(trace)
IsOp(k, op) == k \in 1..N /\ trace[k].op = op
IsQueue(k) == IsOp(k, "queue_svg")
IsReturn(k) == IsOp(k, "return")
IsReturnOf(k, status) == IsReturn(k) /\ trace[k].status = status
IsFlush(k, b) == IsOp(k, "set_flushing") /\ trace[k].flushing = b
\* a call of fill that finds the queue empty and neither flag set: it waits
IsBlockedFill(k) ==
    /\ IsOp(k, "fill")
    /\ trace[k].queue = <<>>
    /\ ~trace[k].eos
    /\ ~trace[k].flushing
\* a call of fill whose return is the next entry: no other call came in between
IsQuietFill(k) == IsOp(k, "fill") /\ IsReturn(k + 1)

\* ---------------------------------------------------------------- C1
\* C1: from an empty queue with flushing false, after queue_svg(item) and then
\* set_eos(), the first fill returns OK with the item rendered and its pts
\* stamped, and only the second fill returns EOS.
C1_EosAfterDrain ==
    \A k \in 3..N :
        ( /\ IsQueue(k - 2)
          /\ IsOp(k - 1, "set_eos")
          /\ IsQuietFill(k)
          /\ trace[k].queue = <<trace[k - 2].item>>
          /\ trace[k].eos
          /\ ~trace[k].flushing )
        => /\ trace[k + 1].status = "OK"
           /\ trace[k + 1].buf = trace[k - 2].item
           /\ (IsQuietFill(k + 2) => trace[k + 3].status = "EOS")

\* ---------------------------------------------------------------- C2
\* The calls the claim excludes after set_eos.
IsWakingCall(k) ==
    IsOp(k, "queue_svg") \/ IsOp(k, "set_flushing") \/ IsOp(k, "reset")

\* C2: a fill blocked on an empty queue with flushing false, followed by
\* set_eos(), eventually returns EOS unless a later queue_svg, set_flushing or
\* reset is made.
C2_EosWakesWaiter ==
    \A k \in 1..(2 * MaxCalls) :
        (N = k + 1 /\ IsBlockedFill(k) /\ IsOp(k + 1, "set_eos"))
        ~> (\E n \in (k + 2)..N : IsWakingCall(n) \/ IsReturnOf(n, "EOS"))

\* ---------------------------------------------------------------- C3
\* C3: a fill that returns FLUSHING has popped no item during the call,
\* whenever set_flushing(true) arrived.
C3_FlushingPopsNothing ==
    \A n \in 1..N : IsReturnOf(n, "FLUSHING") => trace[n].item = NoItem

\* ---------------------------------------------------------------- C4
\* The first return after entry k.
IsFirstReturnAfter(k, n) ==
    /\ n > k
    /\ IsReturn(n)
    /\ \A j \in (k + 1)..(n - 1) : ~IsReturn(j)

\* C4 as stated: a fill blocked on an empty queue with neither flag set, then
\* queue_svg(item), and until the fill returns no set_flushing, set_eos or
\* reset: the fill returns OK with that item's content and pts.
C4_WakeOnSubmitAsStated ==
    \A k \in 1..N : \A n \in 1..N :
        ( /\ IsBlockedFill(k)
          /\ IsQueue(k + 1)
          /\ IsFirstReturnAfter(k, n)
          /\ \A j \in (k + 2)..(n - 1) : IsQueue(j) )
        => /\ trace[n].status = "OK"
           /\ trace[n].buf = trace[k + 1].item

\* Entries k + 2 .. n hold only queue_svg calls made with is_live false.
OnlyAppends(k, n) ==
    \A j \in (k + 2)..n : IsQueue(j) /\ ~trace[j].live

\* A fill blocked at k and woken by the queue_svg at k + 1 has not returned,
\* and nothing but appending queue_svg calls followed.
WokenBySubmit(k) ==
    /\ IsBlockedFill(k)
    /\ IsQueue(k + 1)
    /\ OnlyAppends(k, N)

\* C4, amended: the same with, in addition, no further queue_svg made while
\* is_live is true before the fill returns.  Such a fill is never left waiting
\* without a wakeup, it returns, and its return is OK with the item.
C4_WakeOnSubmit ==
    /\ [](\A k \in 1..N : WokenBySubmit(k) => (pc # "wait" \/ notified))
    /\ [](\A k \in 1..N : \A n \in 1..N :
            ( /\ IsBlockedFill(k)
              /\ IsQueue(k + 1)
              /\ IsFirstReturnAfter(k, n)
              /\ OnlyAppends(k, n - 1) )
            => /\ trace[n].status = "OK"
               /\ trace[n].buf = trace[k + 1].item)
    /\ ((pc = "wait" /\ notified) ~> ~(pc = "wait" /\ notified))
    /\ ((pc \in {"render", "post"}) ~> (pc = "idle"))

C4_Witness ==
    /\ N = 3
    /\ IsBlockedFill(1)
    /\ IsQueue(2)
    /\ IsReturnOf(3, "OK")
    /\ trace[3].buf = trace[2].item
    /\ trace[3].buf = <<"b", 2>>

\* ---------------------------------------------------------------- C5
\* C5: set_flushing(true) wakes a blocked fill: a thread waiting while
\* flushing is true always has a wakeup pending, it returns unless flushing is
\* cleared first, and that return is FLUSHING unless eos is set on an empty
\* queue.
C5_FlushingWakesWaiter ==
    /\ []((pc = "wait" /\ flushing) => notified)
    /\ ((pc = "wait" /\ flushing) ~> (pc = "idle" \/ ~flushing))
    /\ [][(pc = "wait" /\ flushing /\ pc' # "wait")
            => /\ pc' = "idle"
               /\ IF queue = <<>> /\ eos
                  THEN trace'[Len(trace')].status = "EOS"
                  ELSE trace'[Len(trace')].status = "FLUSHING"]_vars

C5_Witness ==
    /\ N = 3
    /\ IsBlockedFill(1)
    /\ IsFlush(2, TRUE)
    /\ IsReturnOf(3, "FLUSHING")
    /\ flushing
    /\ pc = "idle"

\* ---------------------------------------------------------------- C6
\* The items submitted and the returns of fill, each in order.
Submitted == SelectSeq(trace, LAMBDA e : e.op = "queue_svg")
Returned == SelectSeq(trace, LAMBDA e : e.op = "return")

\* Every queue_svg so far ran with is_live false, and no reset, set_flushing
\* or set_eos was made.
NonLiveUndisturbed ==
    \A k \in 1..N :
        /\ ~IsOp(k, "reset")
        /\ ~IsOp(k, "set_flushing")
        /\ ~IsOp(k, "set_eos")
        /\ (IsQueue(k) => ~trace[k].live)

\* C6: with is_live false and no reset, set_flushing or set_eos, the k-th fill
\* to return returns OK with the content and the pts of the k-th queue_svg.
C6_FifoNonLive ==
    NonLiveUndisturbed =>
        /\ Len(Returned) <= Len(Submitted)
        /\ \A k \in 1..Len(Returned) :
              /\ Returned[k].status = "OK"
              /\ Returned[k].buf = Submitted[k].item

C6_Witness ==
    /\ NonLiveUndisturbed
    /\ Len(Submitted) = 2
    /\ Len(Returned) = 2
    /\ IsQueue(1)
    /\ IsQueue(2)
    /\ Returned[1].buf = <<"a", 1>>
    /\ Returned[2].buf = <<"b", 2>>

\* ---------------------------------------------------------------- C7
\* Every queue_svg so far ran with is_live true.
AlwaysLive == \A k \in 1..N : IsQueue(k) => trace[k].live

\* The item of the latest queue_svg.
LastSubmitted == Submitted[Len(Submitted)].item

\* C7: right after a queue_svg made with is_live true the queue holds exactly
\* the item submitted; while every queue_svg was made live the queue never holds
\* more than one item, and the item fill pops is the latest one submitted.
C7_LiveCollapsing ==
    /\ [][(Len(trace') = N + 1 /\ trace'[N + 1].op = "queue_svg"
             /\ trace'[N + 1].live)
            => queue' = <<trace'[N + 1].item>>]_vars
    /\ [](AlwaysLive => Len(queue) <= 1)
    /\ [][(AlwaysLive /\ pc # "render" /\ pc' = "render")
            => (Submitted # <<>> /\ item' = LastSubmitted)]_vars
    /\ [](AlwaysLive =>
            \A n \in 1..N : (IsReturn(n) /\ trace[n].item # NoItem)
                => \E k \in 1..(n - 1) :
                      IsQueue(k) /\ trace[k].item = trace[n].buf)

C7_Witness ==
    /\ AlwaysLive
    /\ N = 4
    /\ IsQueue(1)
    /\ trace[1].item = <<"a", 1>>
    /\ IsQueue(2)
    /\ trace[2].item = <<"b", 2>>
    /\ trace[3].op = "fill"
    /\ trace[3].queue = <<<<"b", 2>>>>
    /\ IsReturnOf(4, "OK")
    /\ trace[4].buf = <<"b", 2>>

\* ---------------------------------------------------------------- C8
\* C8: with an item pending, a fill made after set_flushing(true) returns
\* FLUSHING and leaves the queue as it found it; after set_flushing(false) the
\* next fill delivers the item that was at the head, with its pts (and returns
\* OK when eos is not set).
C8_FlushVeto ==
    \A k \in 1..N :
        /\ (IsQueue(k - 1) /\ IsFlush(k, TRUE) /\ IsOp(k + 1, "fill"))
              => /\ trace[k + 1].queue # <<>>
                 /\ trace[k + 1].queue[Len(trace[k + 1].queue)] = trace[k - 1].item
        /\ (IsFlush(k, TRUE) /\ IsQuietFill(k + 1) /\ trace[k + 1].queue # <<>>)
              => /\ trace[k + 2].status = "FLUSHING"
                 /\ trace[k + 2].queue = trace[k + 1].queue
                 /\ trace[k + 2].item = NoItem
                 /\ trace[k + 2].buf = NoItem
                 /\ (IsFlush(k + 3, FALSE) /\ IsQuietFill(k + 4))
                      => /\ trace[k + 4].queue = trace[k + 1].queue
                         /\ trace[k + 5].buf = Head(trace[k + 1].queue)
                         /\ trace[k + 5].queue = Tail(trace[k + 1].queue)
                         /\ (~trace[k + 4].eos => trace[k + 5].status = "OK")

C8_Witness ==
    /\ N = 7
    /\ IsQueue(1)
    /\ IsFlush(2, TRUE)
    /\ IsQuietFill(3)
    /\ trace[3].queue = <<trace[1].item>>
    /\ IsReturnOf(4, "FLUSHING")
    /\ IsFlush(5, FALSE)
    /\ IsQuietFill(6)
    /\ IsReturnOf(7, "OK")
    /\ trace[7].buf = trace[1].item

\* ---------------------------------------------------------------- C9
\* C9: whenever the streaming thread is suspended in cond.wait() with no
\* wakeup pending, the queue is empty and neither eos nor flushing is set.
C9_BlockingCondition ==
    (pc = "wait" /\ ~notified) => (queue = <<>> /\ ~eos /\ ~flushing)

\* ---------------------------------------------------------------- C10
\* C10: every EOS return of fill follows a set_eos made since the previous EOS
\* return (so EOS returns never outnumber set_eos calls, and several set_eos
\* calls before one EOS return yield one EOS return), and the return of EOS
\* leaves the eos flag cleared.
C10_EosSingleShot ==
    /\ \A n \in 1..N :
          IsReturnOf(n, "EOS") =>
              \E k \in 1..(n - 1) :
                  /\ IsOp(k, "set_eos")
                  /\ \A j \in (k + 1)..(n - 1) : ~IsReturnOf(j, "EOS")
    /\ Cardinality({n \in 1..N : IsReturnOf(n, "EOS")})
          <= Cardinality({n \in 1..N : IsOp(n, "set_eos")})
    /\ (IsReturnOf(N, "EOS") => ~eos)

C10_Witness ==
    /\ N = 5
    /\ IsOp(1, "set_eos")
    /\ IsOp(2, "set_eos")
    /\ IsQuietFill(3)
    /\ IsReturnOf(4, "EOS")
    /\ IsBlockedFill(5)
    /\ pc = "wait"
    /\ ~eos


\* ---------------------------------------------------------------- C11
\* C11: whenever fill returns EOS, the queue was empty and eos was set at the
\* moment the status was decided under the lock; fill never returns EOS while
\* an item is still queued.  (A return is the newest entry of the history in
\* the state its call ends in, so every return is looked at there.)
C11_EosOnlyWhenEmpty ==
    IsReturnOf(N, "EOS") => /\ trace[N].queue = <<>>
                            /\ trace[N].eos
                            /\ queue = <<>>

\* eos was set with an item queued: the fill that finds both does not return
\* EOS at its entry, it pops the item, and EOS is decided on the empty queue
C11_Witness ==
    /\ N = 4
    /\ IsQueue(1)
    /\ IsOp(2, "set_eos")
    /\ IsQuietFill(3) /\ trace[3].queue # <<>> /\ trace[3].eos
    /\ IsReturnOf(4, "EOS")
    /\ trace[4].item = trace[1].item
    /\ trace[4].queue = <<>>

\* ---------------------------------------------------------------- C12
\* an entry of the history made by a call that ran reset(): reset, do_start,
\* do_stop, or do_event with a SEEK
ResetLikeEv(e) == e.op = "reset" \/ (e.op = "do_event" /\ e.type = "SEEK")
IsResetLike(k) == k \in 1..N /\ ResetLikeEv(trace[k])
\* this step is such a call
ResetStep == Len(trace') = N + 1 /\ ResetLikeEv(trace'[N + 1])

\* C12: after reset(), do_start, do_stop or a handled SEEK the queue is empty
\* and eos is false; such a call made right after another one changes nothing;
\* and the call is never kept waiting for the lock.
C12_ResetIdempotent ==
    /\ [](IsResetLike(N) => (queue = <<>> /\ ~eos))
    /\ [][(IsResetLike(N) /\ ResetStep)
            => UNCHANGED <<queue, eos, flushing, is_live, input_frames,
                           output_frames, pc, notified, item, buf, lock,
                           geometry>>]_vars
    /\ [](ENABLED reset)

\* an item was queued, a SEEK was handled, and reset() was called right after
C12_Witness ==
    /\ N = 3
    /\ IsQueue(1)
    /\ IsOp(2, "do_event") /\ trace[2].type = "SEEK"
    /\ IsOp(3, "reset")
    /\ queue = <<>> /\ ~eos

\* ---------------------------------------------------------------- C13
\* a return that records a mapping shorter than stride * height
IsShortMapping(k) ==
    /\ IsReturn(k)
    /\ "mapped" \in DOMAIN trace[k]
    /\ trace[k].mapped < trace[k].need

\* C13: when fill has popped an item and the mapping of the destination buffer
\* is shorter than stride * height, the call ends with an AssertionError, not
\* OK, and nothing has been written to the buffer.
C13_BufferInvariant ==
    \A n \in 1..N :
        IsShortMapping(n)
        => /\ trace[n].status = "AssertionError"
           /\ trace[n].item \in Items
           /\ trace[n].buf = NoItem
           /\ (n = N => (pc = "idle" /\ buf = NoItem))

\* caps of height 2 and stride 4 were set, and fill was handed 7 bytes for the
\* 8 it needs
C13_Witness ==
    /\ IsShortMapping(N)
    /\ trace[N].mapped = 7
    /\ trace[N].need = 8
    /\ min_stride = 4 /\ height = 2

\* ---------------------------------------------------------------- C14
\* C14: on a SEEK the source sends flush-start and flush-stop only when the
\* flags of the seek include FLUSH; a seek without FLUSH sends no flush event.
\* (The queue and eos are reset in both cases.)
C14_FlushOnlyOnFlushSeek ==
    \A n \in 1..N :
        (IsOp(n, "do_event") /\ trace[n].type = "SEEK")
        => /\ (BitAnd(trace[n].flags, FLUSH) # 0
                 => trace[n].sent = <<"flush-start", "flush-stop">>)
           /\ (BitAnd(trace[n].flags, FLUSH) = 0 => trace[n].sent = <<>>)
           /\ (n = N => (queue = <<>> /\ ~eos))

\* ---------------------------------------------------------------- C15
\* the value the calls of set_flushing among the first j entries leave in
\* flushing (false at construction)
RECURSIVE FlushingAfter(_)
FlushingAfter(j) ==
    IF j = 0 THEN FALSE
    ELSE IF trace[j].op = "set_flushing" THEN trace[j].flushing
    ELSE FlushingAfter(j - 1)

\* fill never writes flushing: the flag is what the last set_flushing left,
\* also where a fill has just returned
OnlySetFlushingWrites ==
    /\ flushing = FlushingAfter(N)
    /\ IsReturn(N) => trace[N].flushing = flushing

\* C15 as stated: while flushing is true every fill returns FLUSHING without
\* blocking, and fill never changes flushing.  (The history only grows, so its
\* two newest entries are where a fill entered under flushing shows first.)
C15_FlushingAsStated ==
    /\ \A k \in {N - 1, N} :
           (IsOp(k, "fill") /\ trace[k].flushing) => IsReturnOf(k + 1, "FLUSHING")
    /\ OnlySetFlushingWrites

\* C15: while flushing is true every fill returns at once, having popped and
\* written nothing: with FLUSHING, or with EOS when it finds the queue empty
\* and eos set (the test that comes first); fill never changes flushing.
C15_FlushingLevelTriggered ==
    /\ \A k \in {N - 1, N} :
           (IsOp(k, "fill") /\ trace[k].flushing)
           => /\ IsReturn(k + 1)
              /\ trace[k + 1].status =
                     IF trace[k].queue = <<>> /\ trace[k].eos
                     THEN "EOS" ELSE "FLUSHING"
              /\ trace[k + 1].item = NoItem
              /\ trace[k + 1].buf = NoItem
              /\ trace[k + 1].queue = trace[k].queue
              /\ trace[k + 1].flushing
    /\ OnlySetFlushingWrites

\* flushing was set and an item queued: two fills in a row return FLUSHING and
\* the item and the flag are still there
C15_Witness ==
    /\ N = 6
    /\ IsFlush(1, TRUE)
    /\ IsQueue(2)
    /\ IsQuietFill(3) /\ IsReturnOf(4, "FLUSHING")
    /\ IsQuietFill(5) /\ IsReturnOf(6, "FLUSHING")
    /\ queue = <<trace[2].item>>
    /\ flushing

\* ---------------------------------------------------------------- C16
\* a return of a fill that popped an item and rendered it
IsRenderedReturn(k) == IsReturn(k) /\ trace[k].buf \in Items

\* C16: after fill has popped and rendered an item, its status is decided under
\* the lock in the order of the entry test: EOS, with eos cleared, if the queue
\* is now empty and eos is set; else FLUSHING if flushing is set; else OK.
C16_PostRenderStatus ==
    IsRenderedReturn(N)
    => /\ trace[N].buf = trace[N].item
       /\ trace[N].status =
              IF trace[N].queue = <<>> /\ trace[N].eos THEN "EOS"
              ELSE IF trace[N].flushing THEN "FLUSHING"
              ELSE "OK"
       /\ eos = (trace[N].eos /\ trace[N].status # "EOS")

\* an item was rendered while eos and flushing were both set behind it: the
\* fill returns EOS, not FLUSHING, and eos is cleared
C16_Witness ==
    /\ IsRenderedReturn(N)
    /\ trace[N].status = "EOS"
    /\ trace[N].flushing
    /\ ~eos

\* ---------------------------------------------------------------- C17
\* this step is the popleft of fill
PopStep == pc \in {"idle", "wait"} /\ pc' = "render"

\* C17: whatever queue_svg, reset, set_eos and set_flushing do in between, the
\* queue is not empty where fill pops its head: the popleft takes the head of
\* a non-empty queue, and a call that is rendering holds a submitted item.
C17_PopSafety ==
    /\ [][PopStep => /\ queue # <<>>
                     /\ item' = Head(queue)
                     /\ queue' = Tail(queue)]_vars
    /\ [](pc \in {"render", "post"} => item \in Items)

\* a blocked fill was woken by queue_svg, reset() emptied the queue before the
\* thread had the lock again, and the thread went back to waiting
C17_Witness ==
    /\ N = 3
    /\ IsBlockedFill(1)
    /\ IsQueue(2)
    /\ IsOp(3, "reset")
    /\ pc = "wait"
    /\ ~notified
    /\ item = NoItem

\* ---------------------------------------------------------------- C18
\* queue_svg, set_eos, set_flushing and reset can each take the lock and run to
\* their end from the present state
ProducersEnabled ==
    /\ \A it \in Items : ENABLED queue_svg(it[1], it[2])
    /\ ENABLED set_eos
    /\ \A b \in BOOLEAN : ENABLED set_flushing(b)
    /\ ENABLED reset

\* C18: the streaming thread holds the lock neither while it renders nor while
\* it is suspended in cond.wait(), so in every reachable state queue_svg,
\* set_eos, set_flushing and reset can take the lock and complete.
C18_RenderOutsideLock ==
    /\ pc \in {"render", "wait"} => lock = "free"
    /\ lock # "streaming"
    /\ CallsDone < MaxCalls => ProducersEnabled

\* the streaming thread has popped an item and is rendering it, and set_eos()
\* has run to its end meanwhile
C18_Witness ==
    /\ N = 3
    /\ IsQueue(1)
    /\ IsOp(2, "fill")
    /\ IsOp(3, "set_eos")
    /\ pc = "render"
    /\ item = trace[1].item
    /\ eos

\* ---------------------------------------------------------------- C19
\* this step is a call of reset(), do_start or do_stop
PlainResetStep == Len(trace') = N + 1 /\ trace'[N + 1].op = "reset"

\* C19: reset(), and with it do_start and do_stop, writes only eos and the
\* queue: flushing after the call is what it was before, and so is every other
\* field.
C19_ResetKeepsFlushing ==
    [][PlainResetStep
         => /\ flushing' = flushing
            /\ UNCHANGED <<is_live, input_frames, output_frames, pc, notified,
                           item, buf, lock, geometry>>]_vars

\* reset() was called during a flush with an item queued: the queue is empty
\* and flushing is still set
C19_Witness ==
    /\ N = 3
    /\ IsFlush(1, TRUE)
    /\ IsQueue(2)
    /\ IsOp(3, "reset")
    /\ queue = <<>>
    /\ flushing

\* ---------------------------------------------------------------- C20
\* the number of queue_svg calls made
SubmittedCount == Cardinality({k \in 1..N : IsQueue(k)})
\* the number of times fill has popped an item: the calls that returned after
\* the pop, and the call still between its pop and its return
PoppedCount ==
    Cardinality({n \in 1..N : IsReturn(n) /\ trace[n].item # NoItem})
        + (IF pc \in {"render", "post"} THEN 1 ELSE 0)
\* the entry of the history at which the fill returning at n was called
CallOf(n) == CHOOSE k \in 1..N :
                 /\ IsOp(k, "fill") /\ k < n
                 /\ \A m \in (k + 1)..(n - 1) : ~IsOp(m, "fill")
\* entry d discards what is queued: a reset, or a queue_svg made when live
IsDiscard(d) == IsResetLike(d) \/ (IsQueue(d) /\ trace[d].live)
\* v was submitted at or after entry d and before entry n
SubmittedBetween(v, d, n) ==
    \E j \in d..(n - 1) : IsQueue(j) /\ trace[j].item = v

\* C20: each submitted item is popped at most once, and an item fill renders
\* was submitted earlier and not discarded by a live-mode clear or a reset
\* before the call; so the items rendered never outnumber the queue_svg calls.
\* (A return is the newest entry of the history in the state its call ends in.)
C20_ItemConservation ==
    /\ PoppedCount + Len(queue) <= SubmittedCount
    /\ (IsReturn(N) /\ trace[N].item # NoItem)
           => /\ trace[N].item \in Items
              /\ trace[N].buf \in {NoItem, trace[N].item}
              /\ SubmittedBetween(trace[N].item, 1, N)
              /\ \A d \in 1..CallOf(N) :
                     IsDiscard(d) => SubmittedBetween(trace[N].item, d, N)

\* an item was submitted and discarded by reset(), another one was submitted,
\* and the fill renders the second one
C20_Witness ==
    /\ N = 5
    /\ IsQueue(1)
    /\ IsOp(2, "reset")
    /\ IsQueue(3)
    /\ trace[3].item # trace[1].item
    /\ IsQuietFill(4)
    /\ trace[5].buf = trace[3].item
    /\ queue = <<>>

====
